---- MODULE Spec2Model ----
(***************************************************************************)
(* Model of the link-processing pipeline of industries_summarizer:         *)
(*   run.py (main, process_links) and scripts/summarizer.py (Summarizer).  *)
(*                                                                         *)
(* The Link Processor runs on one asyncio event loop.  A coroutine gives   *)
(* up the thread only where it really suspends: on a semaphore that has no *)
(* free slot, and on the three aiofiles operations of save_summary (open,  *)
(* write, close), which run in the executor's threads.  load_document and  *)
(* llm_chain.invoke contain no await that suspends: the task that is in    *)
(* one of them keeps the thread, and the model shows it in the call        *)
(* ("fetching", "invoking") with every other step of the loop held back.   *)
(***************************************************************************)
EXTENDS Integers, Sequences, FiniteSets, TLC

\* ------------------------------------------------------------------ bounds
\* Most links one run discovers.
MaxLinks == 2
\* Widths of the admission gate that are tried: 1..MaxWidth.
MaxWidth == 2
\* Most runs of the program, one after the other, over the same disk.
MaxRuns == 2

\* -------------------------------------------------------------------- data
Industries == {"A", "B"}

\* A URL is the part urlparse() reads the netloc from, the netloc as its
\* dot-separated labels, and the path.
U1 == [netloc |-> <<"www", "a", "com">>, path |-> "/x"]
U2 == [netloc |-> <<"a", "com">>, path |-> "/y"]
Urls == {U1, U2}

\* What link discovery can hand to the Link Processor: two pages of one
\* host under one industry, one of them under a second industry too.
LinkRecords == {<<"A", U1>>, <<"A", U2>>, <<"B", U1>>}

\* The text the model returns for a page (one value: its wording is not
\* what the pipeline branches on).
SummaryText == "summary"

EmptyMap == [x \in {} |-> x]

MapPut(m, k, v) == [x \in DOMAIN m \cup {k} |-> IF x = k THEN v ELSE m[x]]

\* dict.get(key, {}) of a dict of dicts
DictGet(d, k) == IF k \in DOMAIN d THEN d[k] ELSE EmptyMap

\* ----------------------------------------------------------- pure functions

\* Mutant: the netloc is used as it is.
extract_name_from_url_keeps_www(url) == url.netloc

\* Summarizer.extract_name_from_url: the netloc without a leading 'www.'
extract_name_from_url(url) ==
    LET domain == url.netloc
    IN IF Len(domain) > 1 /\ Head(domain) = "www" THEN Tail(domain) ELSE domain

\* save_summary's path of the summary of url under industry, relative to the
\* project root: summarized_sources/<industry>/<host>.md
summary_path(url, industry) ==
    <<"summarized_sources", industry, extract_name_from_url(url)>>

\* save_summary's file content: 'URL: {url}\n\n{summary}'
summary_content(url, summary) == <<"URL", url, summary>>

\* json.dump of the processed-links dict: the document's keys (an industry
\* may hold an empty object) and its members (industry, url, path).
json_dump(d) ==
    [keys |-> DOMAIN d,
     members |-> UNION {{<<i, u, d[i][u]>> : u \in DOMAIN d[i]} : i \in DOMAIN d}]

\* json.load of such a document
json_load(doc) ==
    [i \in doc.keys |->
        [u \in {m[2] : m \in {x \in doc.members : x[1] = i}} |->
            (CHOOSE m \in doc.members : m[1] = i /\ m[2] = u)[3]]]

\* The three states of processed_links.json on disk.
AbsentFile == [state |-> "absent", doc |-> json_dump(EmptyMap)]
CorruptFile == [state |-> "corrupt", doc |-> json_dump(EmptyMap)]
ValidFile(doc) == [state |-> "valid", doc |-> doc]

\* Mutant: the constructor starts from an empty dict and never reads the file.
load_processed_links_never_reads(file) ==
    [raised |-> FALSE, value |-> EmptyMap]

\* Summarizer.load_processed_links: {} when the file does not exist, else
\* json.load(f), which raises json.JSONDecodeError on a file it cannot
\* parse; nothing in the method or in __init__ catches it.
load_processed_links(file) ==
    CASE file.state = "absent" -> [raised |-> FALSE, value |-> EmptyMap]
      [] file.state = "valid" -> [raised |-> FALSE, value |-> json_load(file.doc)]
      [] file.state = "corrupt" -> [raised |-> TRUE, value |-> EmptyMap]

\* Mutant: the industry's dict is replaced instead of extended.
save_processed_link_resets(pl, url, industry, filepath) ==
    MapPut(pl, industry, MapPut(EmptyMap, url, filepath))

\* Mutant: the dict is rebuilt from the new entry alone.
save_processed_link_only_latest(pl, url, industry, filepath) ==
    MapPut(EmptyMap, industry, MapPut(EmptyMap, url, filepath))

\* Summarizer.save_processed_link: the in-memory dict after the call
save_processed_link(pl, url, industry, filepath) ==
    LET pl1 == IF industry \notin DOMAIN pl THEN MapPut(pl, industry, EmptyMap) ELSE pl
    IN MapPut(pl1, industry, MapPut(pl1[industry], url, filepath))

\* Summarizer.save_processed_link: the file it leaves on disk
write_processed_links(pl, file) == ValidFile(json_dump(pl))

\* The dedup test of process_url: url in self.processed_links.get(industry, {})
already_processed_any_industry(pl, url, industry) ==
    \E i \in DOMAIN pl : url \in DOMAIN pl[i]

already_processed(pl, url, industry) == url \in DOMAIN DictGet(pl, industry)

\* Mutant: acquire() never blocks.
sem_can_acquire_always(value) == TRUE

\* asyncio.Semaphore, by its counter: acquire() returns at once while the
\* counter is positive and blocks otherwise; release() adds one.
sem_can_acquire(value) == value > 0
sem_acquire(value) == value - 1

\* Mutant: release() wakes nobody and frees nothing.
sem_release_frees_nothing(value) == value

sem_release(value) == value + 1

\* Mutant: the slot is not released when the block raised.
sem_aexit_leaks(value, raised) == IF raised THEN value ELSE sem_release(value)

\* 'async with self.semaphore' leaving its block: the slot is released
\* whether the block returned or raised.
sem_aexit(value, raised) == sem_release(value)

\* ------------------------------------------------------------------- state
VARIABLES
    \* the disk, which outlives a run
    storeFile,          \* summarized_sources/processed_links.json
    sumFiles,           \* the summary files that exist: path -> content
    \* the configuration main() passes to Summarizer
    width,              \* max_concurrent_tasks
    need_save_summary,
    \* one run of the program
    run,                \* which run this is, 1..MaxRuns
    phase,              \* where main()/process_links() stands
    processed_links,    \* Summarizer.processed_links
    semaphore,          \* the counter of Summarizer.semaphore
    total_links,        \* Summarizer.total_links
    summarized_links,   \* Summarizer.summarized_links
    links,              \* the list process_links builds from discovery
    progress,           \* progress_bar.n
    pc,                 \* per link task: where its coroutine stands
    site,               \* per link task: which call of save_summary it is in
    outcome,            \* per link task: how process_url returned
    \* what the run did, recorded for the properties
    holders,            \* the tasks inside 'async with self.semaphore'
    fetches,            \* per link record: pages loaded for it in this run
    invokes,            \* per link record: llm_chain.invoke calls in this run
    sumWrites,          \* per task in process_url: summary files it opened
    storeWrites,        \* per task in process_url: its save_processed_link calls
    completed,          \* pairs some process_url call has saved and recorded
    \* a second Summarizer object over the same disk (another process)
    peerUp,             \* it has been constructed
    peerLinks,          \* its processed_links
    \* the rest of the disk
    sumDirs,            \* industries whose summarized_sources/<industry> exists
    repDirs,            \* industries whose reports/<industry>/for_each_summary exists
    judgments,          \* the judgment files: <<industry, name>> -> content
    finalReports,       \* the final reports: <<industry, timestamp>> -> report
    clock,              \* datetime.now(), in seconds
    \* link discovery (SearchResultAggregator.stream_links_by_industry)
    dphase,             \* where the generator stands
    dIndex,             \* which industry of the query file it is at
    futures,            \* per query: the state of its future
    yielded,            \* the (industry, link) pairs yielded so far
    \* report aggregation (load_summaries, generate_report, process_reports)
    aggPc,              \* where the aggregation of one industry stands
    aggIndustry,        \* the industry it was called for
    summaries,          \* what load_summaries returned
    aggIdx,             \* generate_report's position in summaries
    judgeCalls,         \* process_summary calls of this aggregation
    aggRun              \* how many aggregations were started

diskVars == <<storeFile, sumFiles>>
confVars == <<width, need_save_summary, run>>
objVars == <<processed_links, semaphore, total_links, summarized_links>>
taskVars == <<links, progress, pc, site, outcome>>
logVars == <<holders, fetches, invokes, sumWrites, storeWrites>>
peerVars == <<peerUp, peerLinks>>
discVars == <<dphase, dIndex, futures, yielded>>
aggDisk == <<repDirs, judgments, finalReports, clock>>
aggVars == <<aggPc, aggIndustry, summaries, aggIdx, judgeCalls, aggRun>>
stageVars == <<sumDirs, discVars, aggDisk, aggVars>>
vars == <<diskVars, confVars, phase, objVars, taskVars, logVars, completed, peerVars,
          stageVars>>

Tasks == DOMAIN pc
Industry(t) == links[t][1]
Url(t) == links[t][2]

\* The batches discovery can return: up to MaxLinks link records, repeats
\* allowed (two queries may return the same page).
Batches == UNION {[1..n -> LinkRecords] : n \in 0..MaxLinks}

NoTasks == <<>>
NoCalls == [r \in LinkRecords |-> 0]

\* No Summarizer exists and no run has started.
RunIdle ==
    /\ run = 1
    /\ phase = "boot"
    /\ processed_links = EmptyMap
    /\ semaphore = 0
    /\ total_links = 0
    /\ summarized_links = 0
    /\ links = <<>>
    /\ progress = 0
    /\ pc = NoTasks /\ site = NoTasks /\ outcome = NoTasks
    /\ holders = {}
    /\ fetches = NoCalls /\ invokes = NoCalls
    /\ sumWrites = NoTasks /\ storeWrites = NoTasks
    /\ completed = {}
    /\ peerUp = FALSE
    /\ peerLinks = EmptyMap

\* The generator of links has not been started.
DiscoveryIdle ==
    /\ dphase = "idle"
    /\ dIndex = 0
    /\ futures = EmptyMap
    /\ yielded = <<>>

\* No aggregation has been started.
AggregationIdle ==
    /\ aggPc = "idle"
    /\ aggIndustry = "none"
    /\ summaries = <<>>
    /\ aggIdx = 0
    /\ judgeCalls = 0
    /\ aggRun = 0

\* No report of any kind is on the disk.
NoReports ==
    /\ repDirs = {}
    /\ judgments = EmptyMap
    /\ finalReports = EmptyMap
    /\ clock = 0

Init ==
    /\ storeFile \in {AbsentFile, CorruptFile}
    /\ sumFiles = EmptyMap
    /\ sumDirs = {}
    /\ width \in 1..MaxWidth
    /\ need_save_summary \in BOOLEAN
    /\ RunIdle
    /\ DiscoveryIdle
    /\ AggregationIdle
    /\ NoReports

\* ------------------------------------------------------------- orchestrator

\* main(): Summarizer(max_concurrent_tasks, need_save_summary).  __init__
\* makes the semaphore and loads the processed links; a file json.load
\* cannot parse ends the program with the exception.
Construct ==
    /\ phase = "boot"
    /\ LET loaded == load_processed_links(storeFile)
       IN IF loaded.raised
          THEN /\ phase' = "crashed"
               /\ UNCHANGED objVars
          ELSE /\ phase' = "constructed"
               /\ processed_links' = loaded.value
               /\ semaphore' = width
               /\ total_links' = 0
               /\ summarized_links' = 0
    /\ UNCHANGED <<diskVars, confVars, taskVars, logVars, completed, peerVars, stageVars>>

\* process_links: links = list(aggregator.stream_links_by_industry()),
\* total_links, the progress bar.
Discover ==
    /\ phase = "constructed"
    /\ \E batch \in Batches :
          /\ links' = batch
          /\ total_links' = Len(batch)
    /\ progress' = 0
    /\ phase' = "discovered"
    /\ UNCHANGED <<diskVars, confVars, processed_links, semaphore, summarized_links,
                   pc, site, outcome, logVars, completed, peerVars, stageVars>>

\* process_links: one task per link, in the order of the list.
CreateTasks ==
    /\ phase = "discovered"
    /\ pc' = [t \in DOMAIN links |-> "created"]
    /\ site' = [t \in DOMAIN links |-> 0]
    /\ outcome' = [t \in DOMAIN links |-> "none"]
    /\ sumWrites' = [t \in DOMAIN links |-> 0]
    /\ storeWrites' = [t \in DOMAIN links |-> 0]
    /\ phase' = "processing"
    /\ UNCHANGED <<diskVars, confVars, objVars, links, progress, holders, fetches,
                   invokes, completed, peerVars, stageVars>>

\* --------------------------------------------------------------- link tasks

\* The event loop starts the tasks in the order they were created.
NextToStart(t) == pc[t] = "created" /\ \A u \in Tasks : u < t => pc[u] # "created"

\* load_document (loader.load()) and llm_chain.invoke are synchronous calls:
\* the task that is in one of them holds the thread of the event loop, and
\* no coroutine is resumed or started until the call returns.
InBlockingCall(t) == pc[t] \in {"fetching", "invoking"}
ThreadFree == \A u \in Tasks : ~InBlockingCall(u)

\* Mutant: the skip path returns without updating the bar.
Finish_skip_forgets_update(t, result) ==
    /\ pc' = [pc EXCEPT ![t] = "done"]
    /\ outcome' = [outcome EXCEPT ![t] = result]
    /\ progress' = IF result = "Deduped" THEN progress ELSE progress + 1

\* process_url returns: the task is over.  Every return is preceded by one
\* progress_bar.update(1).
Finish(t, result) ==
    /\ pc' = [pc EXCEPT ![t] = "done"]
    /\ outcome' = [outcome EXCEPT ![t] = result]
    /\ progress' = progress + 1

\* process_url, lines 213-216: the pair is in processed_links; set the
\* postfix, update the bar, return None.
StartSkip(t) ==
    /\ phase = "processing"
    /\ ThreadFree
    /\ NextToStart(t)
    /\ already_processed(processed_links, Url(t), Industry(t))
    /\ Finish(t, "Deduped")
    /\ UNCHANGED <<diskVars, confVars, phase, objVars, links, site, logVars, completed,
                   peerVars, stageVars>>

\* process_url, line 219 with no slot free: the task waits in acquire().
StartBlocked(t) ==
    /\ phase = "processing"
    /\ ThreadFree
    /\ NextToStart(t)
    /\ ~already_processed(processed_links, Url(t), Industry(t))
    /\ ~sem_can_acquire(semaphore)
    /\ pc' = [pc EXCEPT ![t] = "wait"]
    /\ UNCHANGED <<diskVars, confVars, phase, objVars, links, progress, site, outcome,
                   logVars, completed, peerVars, stageVars>>

\* The task passes line 219: it starts with a slot free, or it waited in
\* acquire() and a slot has become free.
Admitted(t) ==
    /\ phase = "processing"
    /\ ThreadFree
    /\ \/ pc[t] = "wait"
       \/ /\ NextToStart(t)
          /\ ~already_processed(processed_links, Url(t), Industry(t))
    /\ sem_can_acquire(semaphore)

\* load_document was called for the task's url.
Fetched(t) == fetches' = [fetches EXCEPT ![links[t]] = @ + 1]

\* llm_chain.invoke was called for the task's page.
Invoked(t) == invokes' = [invokes EXCEPT ![links[t]] = @ + 1]

\* Lines 219-221 and summarize 148: the task has its slot and is in
\* load_document, in the synchronous loader.load().
Enter(t) ==
    /\ Admitted(t)
    /\ semaphore' = sem_acquire(semaphore)
    /\ holders' = holders \cup {t}
    /\ pc' = [pc EXCEPT ![t] = "fetching"]
    /\ UNCHANGED <<diskVars, confVars, phase, processed_links, total_links,
                   summarized_links, links, progress, site, outcome, fetches, invokes,
                   sumWrites, storeWrites, completed, peerVars, stageVars>>

\* summarize 148-152: the page is loaded and the task is in the
\* synchronous llm_chain.invoke.
Loaded(t) ==
    /\ phase = "processing"
    /\ pc[t] = "fetching"
    /\ Fetched(t)
    /\ pc' = [pc EXCEPT ![t] = "invoking"]
    /\ UNCHANGED <<diskVars, confVars, phase, objVars, links, progress, site, outcome,
                   holders, invokes, sumWrites, storeWrites, completed, peerVars,
                   stageVars>>

\* Lines 220, 227-230: an exception escapes the block before the update of
\* line 225; the semaphore is released by the 'async with', the handler
\* updates the bar and returns None.
BodyRaise(t) ==
    /\ Admitted(t)
    /\ semaphore' = sem_aexit(sem_acquire(semaphore), TRUE)
    /\ Finish(t, "Failed")
    /\ UNCHANGED <<diskVars, confVars, phase, processed_links, total_links,
                   summarized_links, links, site, logVars, completed, peerVars, stageVars>>

\* Mutant: a failed fetch still leaves a summary file, empty.
BodyFetchFail_leaves_file(t) ==
    /\ phase = "processing"
    /\ pc[t] = "fetching"
    /\ Fetched(t)
    /\ semaphore' = sem_aexit(semaphore, FALSE)
    /\ holders' = holders \ {t}
    /\ Finish(t, "Failed")
    /\ sumFiles' = MapPut(sumFiles, summary_path(Url(t), Industry(t)), <<>>)
    /\ UNCHANGED <<storeFile, confVars, phase, processed_links, total_links,
                   summarized_links, links, site, invokes, sumWrites,
                   storeWrites, completed, peerVars, stageVars>>

\* load_document 132-135, summarize 149-150, process_url 222, 225-226:
\* loader.load() raised, load_document caught the error and returned
\* None; nothing is saved and the slot is released.
BodyFetchFail(t) ==
    /\ phase = "processing"
    /\ pc[t] = "fetching"
    /\ Fetched(t)
    /\ semaphore' = sem_aexit(semaphore, FALSE)
    /\ holders' = holders \ {t}
    /\ Finish(t, "Failed")
    /\ UNCHANGED <<diskVars, confVars, phase, processed_links, total_links,
                   summarized_links, links, site, invokes, sumWrites,
                   storeWrites, completed, peerVars, stageVars>>

\* summarize 151-153, 157-159: llm_chain.invoke raised; summarize logs and
\* returns None; nothing is saved.
BodyModelFail(t) ==
    /\ phase = "processing"
    /\ pc[t] = "invoking"
    /\ Invoked(t)
    /\ semaphore' = sem_aexit(semaphore, FALSE)
    /\ holders' = holders \ {t}
    /\ Finish(t, "Failed")
    /\ UNCHANGED <<diskVars, confVars, phase, processed_links, total_links,
                   summarized_links, links, site, fetches, sumWrites,
                   storeWrites, completed, peerVars, stageVars>>

\* The model answered and need_save_summary is off: the summary is
\* returned, nothing is written.
BodyNoSave(t) ==
    /\ phase = "processing"
    /\ pc[t] = "invoking"
    /\ ~need_save_summary
    /\ Invoked(t)
    /\ semaphore' = sem_aexit(semaphore, FALSE)
    /\ holders' = holders \ {t}
    /\ Finish(t, "Succeeded")
    /\ UNCHANGED <<diskVars, confVars, phase, processed_links, total_links,
                   summarized_links, links, site, fetches, sumWrites,
                   storeWrites, completed, peerVars, stageVars>>

\* The model answered and need_save_summary is on: summarize (line 155)
\* calls save_summary, which makes the industry's directory (line 189) and
\* suspends in aio_open; the task keeps its slot.
BodySave(t) ==
    /\ phase = "processing"
    /\ pc[t] = "invoking"
    /\ need_save_summary
    /\ Invoked(t)
    /\ pc' = [pc EXCEPT ![t] = "opening"]
    /\ site' = [site EXCEPT ![t] = 1]
    /\ sumDirs' = sumDirs \cup {Industry(t)}
    /\ UNCHANGED <<diskVars, confVars, phase, objVars, links, progress, outcome,
                   holders, fetches, sumWrites, storeWrites, completed, peerVars,
                   discVars, aggDisk, aggVars>>

\* save_summary returned to summarize (line 155), which returns the summary
\* to process_url; line 222 holds, and line 223 calls save_summary again,
\* which suspends in aio_open.
AfterFirstSave(t, recorded) ==
    /\ pc' = [pc EXCEPT ![t] = "opening"]
    /\ site' = [site EXCEPT ![t] = 2]
    /\ storeWrites' = [storeWrites EXCEPT ![t] = @ + recorded]
    /\ UNCHANGED <<semaphore, holders, summarized_links, progress, outcome,
                   sumWrites, completed>>

\* save_summary returned to process_url (line 223): lines 224-226, and the
\* 'async with' releases the slot.  (The counts of the call's writes end
\* with the call.)
AfterSecondSave(t, recorded) ==
    /\ summarized_links' = summarized_links + 1
    /\ semaphore' = sem_aexit(semaphore, FALSE)
    /\ holders' = holders \ {t}
    /\ Finish(t, "Succeeded")
    /\ site' = [site EXCEPT ![t] = 0]
    /\ sumWrites' = [sumWrites EXCEPT ![t] = 0]
    /\ storeWrites' = [storeWrites EXCEPT ![t] = 0]
    /\ completed' = IF storeWrites[t] + recorded > 0
                    THEN completed \cup {links[t]}
                    ELSE completed

AfterSave(t, recorded) ==
    IF site[t] = 1 THEN AfterFirstSave(t, recorded) ELSE AfterSecondSave(t, recorded)

\* save_summary, line 193: the file is open for writing (created or
\* truncated); the task goes on to line 194 and suspends in f.write.
OpenDone(t) ==
    /\ phase = "processing"
    /\ ThreadFree
    /\ pc[t] = "opening"
    /\ sumFiles' = MapPut(sumFiles, summary_path(Url(t), Industry(t)), <<>>)
    /\ sumWrites' = [sumWrites EXCEPT ![t] = @ + 1]
    /\ pc' = [pc EXCEPT ![t] = "writing"]
    /\ UNCHANGED <<storeFile, confVars, phase, objVars, links, progress, site, outcome,
                   holders, fetches, invokes, storeWrites, completed, peerVars, stageVars>>

\* Mutant: the pair is recorded although the summary file could not be
\* opened.
OpenFail_still_records(t) ==
    /\ phase = "processing"
    /\ ThreadFree
    /\ pc[t] = "opening"
    /\ LET pl == save_processed_link(processed_links, Url(t), Industry(t),
                                     summary_path(Url(t), Industry(t)))
       IN /\ processed_links' = pl
          /\ storeFile' = write_processed_links(pl, storeFile)
    /\ AfterSave(t, 1)
    /\ UNCHANGED <<sumFiles, confVars, phase, total_links, links, fetches, invokes,
                   peerVars, stageVars>>

\* save_summary, lines 193 and 198-199: aio_open raised; save_summary logs
\* and returns with nothing written and nothing recorded.
OpenFail(t) ==
    /\ phase = "processing"
    /\ ThreadFree
    /\ pc[t] = "opening"
    /\ AfterSave(t, 0)
    /\ UNCHANGED <<diskVars, confVars, phase, processed_links, total_links, links,
                   fetches, invokes, peerVars, stageVars>>

\* save_summary, line 194: the content is written; the task leaves the
\* 'async with' of the file and suspends in its close.
WriteDone(t) ==
    /\ phase = "processing"
    /\ ThreadFree
    /\ pc[t] = "writing"
    /\ sumFiles' = MapPut(sumFiles, summary_path(Url(t), Industry(t)),
                          summary_content(Url(t), SummaryText))
    /\ pc' = [pc EXCEPT ![t] = "closing"]
    /\ UNCHANGED <<storeFile, confVars, phase, objVars, links, progress, site, outcome,
                   logVars, completed, peerVars, stageVars>>

\* save_summary, lines 196-197: the file is closed; save_processed_link
\* records the pair in memory and rewrites processed_links.json; then
\* save_summary returns.
CloseDone(t) ==
    /\ phase = "processing"
    /\ ThreadFree
    /\ pc[t] = "closing"
    /\ LET pl == save_processed_link(processed_links, Url(t), Industry(t),
                                     summary_path(Url(t), Industry(t)))
       IN /\ processed_links' = pl
          /\ storeFile' = write_processed_links(pl, storeFile)
    /\ AfterSave(t, 1)
    /\ UNCHANGED <<sumFiles, confVars, phase, total_links, links, fetches, invokes,
                   peerVars, stageVars>>

\* --------------------------------------------------------------- end of run

\* Mutant: the wait ends when the first task is over.
Gather_first_completed ==
    /\ phase = "processing"
    /\ ThreadFree
    /\ \/ \A t \in Tasks : pc[t] = "done"
       \/ \E t \in Tasks : pc[t] = "done"
    /\ phase' = "aggregating"
    /\ UNCHANGED <<diskVars, confVars, objVars, taskVars, logVars, completed, peerVars, stageVars>>

\* Mutant: the wait ends at the first task that failed.
Gather_first_failure ==
    /\ phase = "processing"
    /\ \/ \A t \in Tasks : pc[t] = "done"
       \/ \E t \in Tasks : outcome[t] = "Failed"
    /\ phase' = "aggregating"
    /\ UNCHANGED <<diskVars, confVars, objVars, taskVars, logVars, completed, peerVars, stageVars>>

\* process_links, line 42: gather returns when every task is done.
Gather ==
    /\ phase = "processing"
    /\ \A t \in Tasks : pc[t] = "done"
    /\ phase' = "aggregating"
    /\ UNCHANGED <<diskVars, confVars, objVars, taskVars, logVars, completed, peerVars, stageVars>>

\* process_links, lines 44-49: the reports are made and the program ends.
Aggregate ==
    /\ phase = "aggregating"
    /\ phase' = "exited"
    /\ UNCHANGED <<diskVars, confVars, objVars, taskVars, logVars, completed, peerVars, stageVars>>

\* The program is started again: a new process over the same disk.
NewRun ==
    /\ phase \in {"exited", "crashed"}
    /\ run < MaxRuns
    /\ run' = run + 1
    /\ phase' = "boot"
    /\ processed_links' = EmptyMap
    /\ semaphore' = 0
    /\ total_links' = 0
    /\ summarized_links' = 0
    /\ links' = <<>>
    /\ progress' = 0
    /\ pc' = NoTasks /\ site' = NoTasks /\ outcome' = NoTasks
    /\ holders' = {}
    /\ fetches' = NoCalls /\ invokes' = NoCalls
    /\ sumWrites' = NoTasks /\ storeWrites' = NoTasks
    /\ UNCHANGED <<diskVars, width, need_save_summary, completed, peerVars, stageVars>>

TaskStep(t) ==
    \/ StartSkip(t)
    \/ StartBlocked(t)
    \/ BodyRaise(t)
    \/ Enter(t)
    \/ Loaded(t)
    \/ BodyFetchFail(t)
    \/ BodyModelFail(t)
    \/ BodyNoSave(t)
    \/ BodySave(t)
    \/ OpenDone(t)
    \/ OpenFail(t)
    \/ WriteDone(t)
    \/ CloseDone(t)

\* One run of the program.
RunStep ==
    \/ Construct
    \/ Discover
    \/ CreateTasks
    \/ \E t \in Tasks : StartSkip(t)
    \/ \E t \in Tasks : StartBlocked(t)
    \/ \E t \in Tasks : BodyRaise(t)
    \/ \E t \in Tasks : Enter(t)
    \/ \E t \in Tasks : Loaded(t)
    \/ \E t \in Tasks : BodyFetchFail(t)
    \/ \E t \in Tasks : BodyModelFail(t)
    \/ \E t \in Tasks : BodyNoSave(t)
    \/ \E t \in Tasks : BodySave(t)
    \/ \E t \in Tasks : OpenDone(t)
    \/ \E t \in Tasks : OpenFail(t)
    \/ \E t \in Tasks : WriteDone(t)
    \/ \E t \in Tasks : CloseDone(t)
    \/ Gather
    \/ Aggregate

Next ==
    \/ RunStep
    \/ NewRun

Spec == Init /\ [][Next]_vars

\* ------------------------------------------------- a second Summarizer object
\* Nothing keeps two Summarizer objects (two processes of the program) from
\* working over the same processed_links.json.  The second one is modelled
\* by the two methods that touch the file.

\* Summarizer.__init__ of the second object: it loads the file as it is now.
PeerConstruct ==
    /\ ~peerUp
    /\ ~load_processed_links(storeFile).raised
    /\ peerUp' = TRUE
    /\ peerLinks' = load_processed_links(storeFile).value
    /\ UNCHANGED <<diskVars, confVars, phase, objVars, taskVars, logVars, completed,
                   stageVars>>

\* save_summary of the second object for a pair it has not processed: the
\* summary file is written, then save_processed_link records the pair in
\* its dict and rewrites the file.
PeerSaveSummary(r) ==
    /\ peerUp
    /\ ~already_processed(peerLinks, r[2], r[1])
    /\ sumFiles' = MapPut(sumFiles, summary_path(r[2], r[1]),
                          summary_content(r[2], SummaryText))
    /\ LET pl == save_processed_link(peerLinks, r[2], r[1], summary_path(r[2], r[1]))
       IN /\ peerLinks' = pl
          /\ storeFile' = write_processed_links(pl, storeFile)
    /\ sumDirs' = sumDirs \cup {r[1]}
    /\ UNCHANGED <<confVars, phase, objVars, taskVars, logVars, completed, peerUp,
                   discVars, aggDisk, aggVars>>

\* One run of the program beside the second object.
NextPeer ==
    \/ RunStep
    \/ PeerConstruct
    \/ \E r \in LinkRecords : PeerSaveSummary(r)

SpecPeer == Init /\ [][NextPeer]_vars

\* ------------------------------------------------------------------ fairness
\* One run under the event loop's scheduling: asyncio.run keeps running
\* ready callbacks while there is one, and every collaborator call (page
\* fetch, model call, file operation) returns or raises, so a run that can
\* take a step takes one.
SpecLive == Init /\ [][RunStep]_vars /\ WF_vars(RunStep)

\* ----------------------------------------------------------- link discovery
\* SearchResultAggregator.stream_links_by_industry, as process_links runs it
\* (list() consumes the generator).  The queries of one industry are
\* submitted to the pool together; as_completed hands the futures over in
\* the order the workers finish.

\* main(): SearchResultAggregator(..., start=3, stop=6, ...)
Start == 3
Stop == 6

\* The query file: the industries in the order of the dict, and the
\* queries of each.
IndustryOrder == <<"A", "B">>
Queries == [i \in Industries |-> IF i = "A" THEN {"q1", "q2"} ELSE {"q3"}]
AllQueries == UNION {Queries[i] : i \in Industries}
IndustryOf(q) == CHOOSE i \in Industries : q \in Queries[i]

\* A result block of the search page (div.yuRUbf): the href of its first
\* anchor, or no anchor at all.  An href is its scheme and the rest; the
\* rest names the query and the block's position.
Result(scheme, q, k) == [a |-> [scheme |-> scheme, id |-> <<q, k>>]]
NoAnchor == [a |-> [scheme |-> "None", id |-> <<"", 0>>]]

\* href.startswith('http')
startswith_http(href) == href.scheme \in {"http", "https"}

\* The pages a search may answer with.
FullPage(q) == [k \in 1..5 |-> Result("https", q, k)]
MixedPage(q) ==
    [k \in 1..7 |-> IF k = 2 THEN Result("", q, k) ELSE Result("http", q, k)]
ShortPage(q) == [k \in 1..3 |-> Result("https", q, k)]
BrokenPage(q) == [k \in 1..5 |-> IF k = 4 THEN NoAnchor ELSE Result("https", q, k)]
LongPage(q) == [k \in 1..8 |-> Result("https", q, k)]

\* What requests.get may do for the query: raise, or answer.
Responses(q) ==
    {[kind |-> "raises", status |-> 0, results |-> <<>>],
     [kind |-> "answers", status |-> 503, results |-> <<>>]}
    \cup {[kind |-> "answers", status |-> 200, results |-> page] :
             page \in {FullPage(q), MixedPage(q), ShortPage(q), BrokenPage(q),
                       LongPage(q)}}

\* Mutant: the slice starts one element early.
PySlice_one_early(seq, a, b) ==
    SubSeq(seq, a, IF b < Len(seq) THEN b ELSE Len(seq))

\* seq[a:b] of Python, a and b not negative
PySlice(seq, a, b) ==
    SubSeq(seq, a + 1, IF b < Len(seq) THEN b ELSE Len(seq))

\* SearchResultAggregator.get_search_results: what the worker's future
\* ends with.  result.find('a')['href'] raises TypeError on a block with no
\* anchor.
get_search_results(response) ==
    IF response.kind = "raises"
    THEN [state |-> "done", cause |-> "raised", links |-> <<>>]
    ELSE IF response.status # 200
    THEN [state |-> "done", cause |-> "non200", links |-> <<>>]
    ELSE IF \E k \in DOMAIN response.results : response.results[k] = NoAnchor
    THEN [state |-> "done", cause |-> "raised", links |-> <<>>]
    ELSE LET hrefs == [k \in DOMAIN response.results |-> response.results[k].a]
             found == SelectSeq(hrefs, startswith_http)
         IN [state |-> "done", cause |-> "ok", links |-> PySlice(found, Start, Stop)]

Pending == [state |-> "pending", cause |-> "none", links |-> <<>>]

\* Everything but link discovery.
notDiscVars ==
    <<diskVars, confVars, phase, objVars, taskVars, logVars, completed, peerVars,
      sumDirs, aggDisk, aggVars>>

\* list(...) starts the generator: the pool is made (line 155).
DiscoveryStart ==
    /\ dphase = "idle"
    /\ dphase' = "running"
    /\ UNCHANGED <<dIndex, futures, yielded, notDiscVars>>

\* Every future of the industry at hand has been handed over.
IndustryDrained ==
    IF dIndex = 0
    THEN TRUE
    ELSE \A q \in Queries[IndustryOrder[dIndex]] : futures[q].state = "taken"

\* Lines 156-158: the next industry's queries are submitted.
SubmitIndustry ==
    /\ dphase = "running"
    /\ IndustryDrained
    /\ dIndex < Len(IndustryOrder)
    /\ dIndex' = dIndex + 1
    /\ futures' = [q \in DOMAIN futures \cup Queries[IndustryOrder[dIndex + 1]] |->
                      IF q \in DOMAIN futures THEN futures[q] ELSE Pending]
    /\ UNCHANGED <<dphase, yielded, notDiscVars>>

\* A worker of the pool runs get_search_results for its query.
WorkerDone(q, response) ==
    /\ dphase = "running"
    /\ q \in DOMAIN futures
    /\ futures[q].state = "pending"
    /\ futures' = [futures EXCEPT ![q] = get_search_results(response)]
    /\ UNCHANGED <<dphase, dIndex, yielded, notDiscVars>>

\* The pairs the generator yields for a finished future.
YieldOf(q) == [k \in DOMAIN futures[q].links |-> <<IndustryOf(q), futures[q].links[k]>>]

\* Mutant: future.result() is called outside the try; the exception of a
\* failed query leaves the generator.
TakeCompleted_unguarded(q) ==
    /\ dphase = "running"
    /\ q \in DOMAIN futures
    /\ futures[q].state = "done"
    /\ futures' = [futures EXCEPT ![q].state = "taken"]
    /\ IF futures[q].cause = "raised"
       THEN dphase' = "aborted" /\ UNCHANGED yielded
       ELSE dphase' = dphase /\ yielded' = yielded \o YieldOf(q)
    /\ UNCHANGED <<dIndex, notDiscVars>>

\* Lines 159-166: as_completed hands over a finished future; its links are
\* yielded one by one, or its exception is logged.
TakeCompleted(q) ==
    /\ dphase = "running"
    /\ q \in DOMAIN futures
    /\ futures[q].state = "done"
    /\ futures' = [futures EXCEPT ![q].state = "taken"]
    /\ yielded' = IF futures[q].cause = "raised" THEN yielded ELSE yielded \o YieldOf(q)
    /\ UNCHANGED <<dphase, dIndex, notDiscVars>>

\* The loop over the industries is over: the pool is shut down and the
\* generator returns.
DiscoveryEnd ==
    /\ dphase = "running"
    /\ IndustryDrained
    /\ dIndex = Len(IndustryOrder)
    /\ dphase' = "ended"
    /\ UNCHANGED <<dIndex, futures, yielded, notDiscVars>>

NextDiscovery ==
    \/ DiscoveryStart
    \/ SubmitIndustry
    \/ \E q \in AllQueries : \E response \in Responses(q) : WorkerDone(q, response)
    \/ \E q \in AllQueries : TakeCompleted(q)
    \/ DiscoveryEnd

SpecDiscovery == Init /\ [][NextDiscovery]_vars

\* -------------------------------------------------------- report aggregation
\* process_links, lines 44-46 (and report_generator.main): load_summaries,
\* generate_report, process_reports, for one industry.  The code is
\* synchronous; the steps are cut at the judgment calls, during which time
\* passes.

\* Most aggregations that are started.
MaxAggRuns == 2
\* The seconds the clock can advance.
MaxClock == 1

\* The hosts that have a summary file (<host>.md).
Hosts == {<<"a", "com">>, <<"b", "org">>}

\* Orders in which a directory listing may give the members of S.
Orderings(S) ==
    {f \in [1..Cardinality(S) -> S] : \A x \in S : \E k \in DOMAIN f : f[k] = x}

\* ReportGenerator.load_summaries: the (filename, summary) pairs of the
\* industry's directory; os.walk of a directory that does not exist gives
\* nothing.
load_summaries(industry) ==
    {<<path[3], sumFiles[path]>> : path \in {q \in DOMAIN sumFiles : q[2] = industry}}

\* generate_report, lines 96-97: the judgment file of a summary file.
report_path(industry, filename) == <<"reports", industry, "for_each_summary", filename>>

\* process_reports, line 40: the final report of the industry at a time.
output_file(industry, timestamp) == <<"reports", industry, timestamp>>

\* Text read from a judgment file is a tuple of tokens; None is the empty
\* tuple and '' the tuple of the empty token.
None == <<>>
EmptyStr == <<"">>

\* A line of a judgment file: the quoted key it holds, the text after it,
\* and whether the pattern of process_file matches the line.
Line(key, text, matches) == [key |-> key, text |-> text, matches |-> matches]

\* The urls a judgment may name: scheme, netloc, path.
JU1 == <<"https", <<"www", "a", "com">>, "/x">>
JU2 == <<"http", <<"b", "org">>, "/y">>

\* What the judgment model may answer (result.content of process_summary).
JudgedYes ==
    <<Line("url", JU1, TRUE), Line("reliable", <<"Yes">>, TRUE),
      Line("reason", <<"R1">>, TRUE)>>
JudgedNo ==
    <<Line("url", JU2, TRUE), Line("reliable", <<"No">>, TRUE),
      Line("reason", <<"R2">>, TRUE)>>
JudgedNoUrl == <<Line("reliable", <<"Yes">>, TRUE), Line("reason", <<"R3">>, TRUE)>>
JudgedVague == <<Line("url", JU1, TRUE), Line("reliable", <<"Maybe">>, FALSE)>>
JudgedNothing == <<>>
JudgmentTexts == {JudgedYes, JudgedNo, JudgedNoUrl, JudgedVague, JudgedNothing}

\* report_parser.extract_name_from_url
parser_extract_name_from_url(url) ==
    LET domain == url[2]
    IN IF Len(domain) > 1 /\ Head(domain) = "www" THEN Tail(domain) ELSE domain

\* report_parser.parse_line
parse_line(line) == IF line.matches THEN line.text ELSE None

\* report_parser.process_file: per key, the value parsed from the last
\* line that holds the key.
process_file(content) ==
    [key \in {content[n].key : n \in DOMAIN content} |->
        LET last == CHOOSE n \in DOMAIN content :
                       /\ content[n].key = key
                       /\ \A k \in DOMAIN content : content[k].key = key => k <= n
        IN parse_line(content[last])]

\* dict.get(key, default)
GetOr(d, key, default) == IF key \in DOMAIN d THEN d[key] ELSE default

\* report_parser.generate_report: the two headings with their counts and
\* the rows of the two tables (None is printed as 'None').
generate_report(selected_sources, rejected_sources, industry) ==
    LET row(source) ==
            <<source.url, IF source.reason = None THEN <<"None">> ELSE source.reason>>
    IN [industry |-> industry,
        selectedCount |-> Len(selected_sources),
        selectedRows |-> [k \in DOMAIN selected_sources |-> row(selected_sources[k])],
        rejectedCount |-> Len(rejected_sources),
        rejectedRows |-> [k \in DOMAIN rejected_sources |-> row(rejected_sources[k])]]

\* Mutant: a source is selected unless it was judged 'No'.
is_selected_unless_no(data) == GetOr(data, "reliable", None) # <<"No">>

\* process_reports, line 57
is_selected(data) == GetOr(data, "reliable", None) = <<"Yes">>

\* process_reports, lines 53-54: the file yields a url
has_url(data) == GetOr(data, "url", EmptyStr) \notin {None, EmptyStr}

\* process_reports, lines 55-56
source_of(data) ==
    [url |-> <<parser_extract_name_from_url(data["url"]), data["url"]>>,
     reason |-> GetOr(data, "reason", EmptyStr)]

\* report_parser.process_reports at the present time: nothing when the
\* industry has no for_each_summary directory; else every judgment file
\* of the directory is parsed, in the order of the listing, and the final
\* report is written to the file named after the second.
process_reports(industry) ==
    IF industry \notin repDirs
    THEN UNCHANGED finalReports
    ELSE \E listing \in Orderings({q \in DOMAIN judgments : q[2] = industry}) :
            LET data == [k \in DOMAIN listing |-> process_file(judgments[listing[k]])]
                withUrl == SelectSeq(data, has_url)
                selected == SelectSeq(withUrl, is_selected)
                rejected == SelectSeq(withUrl, LAMBDA d : ~is_selected(d))
                selected_sources == [k \in DOMAIN selected |-> source_of(selected[k])]
                rejected_sources == [k \in DOMAIN rejected |-> source_of(rejected[k])]
            IN finalReports' =
                  MapPut(finalReports, output_file(industry, clock),
                         generate_report(selected_sources, rejected_sources, industry))

\* Mutant: every summary is judged again.
has_judgment_never(path) == FALSE

\* generate_report, line 99: the judgment file exists and is not empty.
has_judgment(path) == path \in DOMAIN judgments /\ judgments[path] # <<>>

\* Everything but report aggregation and the reports on the disk.
notAggVars ==
    <<storeFile, sumFiles, sumDirs, confVars, phase, objVars, taskVars, logVars,
      completed, peerVars, discVars>>

\* load_summaries(industry), then generate_report up to its loop (lines
\* 84-93): the summaries are read and the for_each_summary directory is
\* made.
AggStart(industry) ==
    /\ aggPc \in {"idle", "done", "failed"}
    /\ aggRun < MaxAggRuns
    /\ \E listing \in Orderings(load_summaries(industry)) : summaries' = listing
    /\ aggIndustry' = industry
    /\ repDirs' = repDirs \cup {industry}
    /\ aggIdx' = 1
    /\ judgeCalls' = 0
    /\ aggRun' = aggRun + 1
    /\ aggPc' = "judging"
    /\ UNCHANGED <<judgments, finalReports, clock, notAggVars>>

\* The judgment file of the summary the loop is at.
CurrentReport == report_path(aggIndustry, summaries[aggIdx][1])

\* Lines 95-100: the summary has a judgment; continue.
JudgeSkip ==
    /\ aggPc = "judging"
    /\ aggIdx <= Len(summaries)
    /\ has_judgment(CurrentReport)
    /\ aggIdx' = aggIdx + 1
    /\ UNCHANGED <<aggPc, aggIndustry, summaries, judgeCalls, aggRun, aggDisk, notAggVars>>

\* Lines 102-104: process_summary returns the model's answer, which is
\* written to the judgment file.
JudgeCall(text) ==
    /\ aggPc = "judging"
    /\ aggIdx <= Len(summaries)
    /\ ~has_judgment(CurrentReport)
    /\ judgeCalls' = judgeCalls + 1
    /\ judgments' = MapPut(judgments, CurrentReport, text)
    /\ aggIdx' = aggIdx + 1
    /\ UNCHANGED <<aggPc, aggIndustry, summaries, aggRun, repDirs, finalReports, clock,
                   notAggVars>>

\* Line 102: the judgment call raises; nothing catches the exception, in
\* generate_report or in process_links.
JudgeRaise ==
    /\ aggPc = "judging"
    /\ aggIdx <= Len(summaries)
    /\ ~has_judgment(CurrentReport)
    /\ judgeCalls' = judgeCalls + 1
    /\ aggPc' = "failed"
    /\ UNCHANGED <<aggIndustry, summaries, aggIdx, aggRun, aggDisk, notAggVars>>

\* process_links, line 46: the loop of generate_report is over and
\* process_reports is called for the industry.
ProcessReports ==
    /\ aggPc = "judging"
    /\ aggIdx > Len(summaries)
    /\ process_reports(aggIndustry)
    /\ aggPc' = "done"
    /\ UNCHANGED <<aggIndustry, summaries, aggIdx, judgeCalls, aggRun, repDirs, judgments,
                   clock, notAggVars>>

\* report_parser.main: process_reports is called on its own.
ParserMain(industry) ==
    /\ aggPc \in {"idle", "done", "failed"}
    /\ process_reports(industry)
    /\ UNCHANGED <<aggVars, repDirs, judgments, clock, notAggVars>>

\* A second passes.
Tick ==
    /\ clock < MaxClock
    /\ clock' = clock + 1
    /\ UNCHANGED <<aggVars, repDirs, judgments, finalReports, notAggVars>>

\* The summary files that stand for the hosts in H, under industry A.
SummaryFiles(H) ==
    [path \in {<<"summarized_sources", "A", h>> : h \in H} |->
        summary_content([netloc |-> path[3], path |-> "/"], SummaryText)]

\* The disk as runs of the Link Processor may have left it: no summary
\* directory, or the directory of A (with any of the summary files), or
\* also the directory of B, empty.
InitAgg ==
    /\ storeFile = AbsentFile
    /\ sumDirs \in {{}, {"A"}, {"A", "B"}}
    /\ sumFiles \in {SummaryFiles(H) : H \in IF "A" \in sumDirs THEN SUBSET Hosts ELSE {{}}}
    /\ width = 1
    /\ need_save_summary = TRUE
    /\ RunIdle
    /\ DiscoveryIdle
    /\ AggregationIdle
    /\ NoReports

NextAgg ==
    \/ \E industry \in Industries : AggStart(industry)
    \/ JudgeSkip
    \/ \E text \in JudgmentTexts : JudgeCall(text)
    \/ JudgeRaise
    \/ ProcessReports
    \/ \E industry \in Industries : ParserMain(industry)
    \/ Tick

SpecAgg == InitAgg /\ [][NextAgg]_vars

\* ------------------------------------------------------------ the whole run
\* One run of main(): the Summarizer is made, the links are discovered and
\* processed, and process_links goes on to the reports (lines 44-49) in
\* place of the summary step Aggregate.

\* main(), line 53: the industry passed to process_links.
MainIndustry == "A"

\* process_links, lines 36 and 44-46: 'industry' is also the variable of
\* the loop over the links; after the loop it is the industry of the last
\* pair, and the argument only when there was no link.
industry_after_loop ==
    IF links = <<>> THEN MainIndustry ELSE links[Len(links)][1]

\* process_links, lines 44-45: load_summaries and generate_report are
\* called for 'industry'.
StartAggregation ==
    /\ phase = "aggregating"
    /\ aggPc = "idle"
    /\ AggStart(industry_after_loop)

\* process_links, lines 48-49 and main: the reports are made and the
\* program ends; or the judgment call raised and the exception ends it.
Exit ==
    /\ phase = "aggregating"
    /\ aggPc \in {"done", "failed"}
    /\ phase' = IF aggPc = "done" THEN "exited" ELSE "crashed"
    /\ UNCHANGED <<diskVars, confVars, objVars, taskVars, logVars, completed, peerVars, stageVars>>

NextPipeline ==
    \/ Construct
    \/ Discover
    \/ CreateTasks
    \/ \E t \in Tasks : StartSkip(t)
    \/ \E t \in Tasks : StartBlocked(t)
    \/ \E t \in Tasks : BodyRaise(t)
    \/ \E t \in Tasks : Enter(t)
    \/ \E t \in Tasks : Loaded(t)
    \/ \E t \in Tasks : BodyFetchFail(t)
    \/ \E t \in Tasks : BodyModelFail(t)
    \/ \E t \in Tasks : BodyNoSave(t)
    \/ \E t \in Tasks : BodySave(t)
    \/ \E t \in Tasks : OpenDone(t)
    \/ \E t \in Tasks : OpenFail(t)
    \/ \E t \in Tasks : WriteDone(t)
    \/ \E t \in Tasks : CloseDone(t)
    \/ Gather
    \/ StartAggregation
    \/ JudgeSkip
    \/ \E text \in JudgmentTexts : JudgeCall(text)
    \/ JudgeRaise
    \/ ProcessReports
    \/ Exit

\* The disk as an earlier run of main() has left it that found the one
\* link https://www.a.com/x of industry A, summarized it, had it judged
\* reliable and wrote the final report, one second ago.
EarlierRun ==
    /\ storeFile = write_processed_links(
                       save_processed_link(EmptyMap, U1, "A", summary_path(U1, "A")),
                       AbsentFile)
    /\ sumFiles = MapPut(EmptyMap, summary_path(U1, "A"),
                         summary_content(U1, SummaryText))
    /\ sumDirs = {"A"}
    /\ repDirs = {"A"}
    /\ judgments = MapPut(EmptyMap, report_path("A", extract_name_from_url(U1)), JudgedYes)
    /\ finalReports =
          MapPut(EmptyMap, output_file("A", 0),
                 generate_report(<<source_of(process_file(JudgedYes))>>, <<>>, "A"))
    /\ clock = 1

\* The program starts over a disk that holds nothing, or a store that
\* cannot be parsed, or what an earlier run has left.
InitPipeline ==
    /\ width \in 1..MaxWidth
    /\ need_save_summary \in BOOLEAN
    /\ RunIdle
    /\ DiscoveryIdle
    /\ AggregationIdle
    /\ \/ /\ storeFile \in {AbsentFile, CorruptFile}
          /\ sumFiles = EmptyMap
          /\ sumDirs = {}
          /\ NoReports
       \/ EarlierRun

SpecPipeline == InitPipeline /\ [][NextPipeline]_vars

\* ---------------------------------------------------------------- properties

\* The entries of processed_links.json, as (industry, url, path).
StoreEntries(file) == IF file.state = "valid" THEN file.doc.members ELSE {}

\* The link record is in the persisted Dedup Store.
Persisted(r) == <<r[1], r[2], summary_path(r[2], r[1])>> \in StoreEntries(storeFile)

\* The link record is in the Summarizer's in-memory Dedup Store.
InMemory(r) == already_processed(processed_links, r[2], r[1])

Running == phase \in {"processing", "aggregating", "exited"}
InFlight(t) == pc[t] \in {"fetching", "invoking", "opening", "writing", "closing"}
AllDone == \A t \in Tasks : pc[t] = "done"

C2_LaterCallIsNoOp ==
    [][\A t \in Tasks :
          (phase = "processing" /\ pc[t] = "created" /\ links[t] \in completed
              /\ pc'[t] # "created")
          => /\ pc'[t] = "done"
             /\ outcome'[t] = "Deduped"
             /\ progress' = progress + 1
             /\ UNCHANGED <<storeFile, sumFiles, processed_links, semaphore, holders,
                            fetches, invokes, sumWrites, storeWrites,
                            summarized_links>>]_vars

\* C2 witness: a new Summarizer (a later run) skipped a pair that an earlier
\* call had saved and recorded.
C2_Witness ==
    /\ run > 1
    /\ \E t \in Tasks : outcome[t] = "Deduped" /\ links[t] \in completed
                          /\ fetches[links[t]] = 0

\* C3: at most max_concurrent_tasks link tasks are between slot acquisition
\* and slot release, and the semaphore's counter never goes below zero.
C3_AdmissionBound ==
    /\ Cardinality(holders) <= width
    /\ semaphore >= 0
    /\ \A t \in Tasks : InFlight(t) => t \in holders

\* C3 witness: every slot is taken and one more task waits for a slot.
C3_Witness ==
    /\ Cardinality(holders) = width
    /\ \E t \in Tasks : pc[t] = "wait"

\* C4: the progress counter equals the number of link tasks that have
\* returned (skipped, succeeded or failed), and equals the number of links
\* once the batch is processed.
C4_ProgressExact ==
    Running =>
        /\ progress = Cardinality({t \in Tasks : pc[t] = "done"})
        /\ (phase # "processing") => progress = Len(links) /\ progress = total_links

\* C4 witness: a batch of two links, one failed and one succeeded, is done.
C4_Witness ==
    /\ phase = "aggregating"
    /\ progress = 2
    /\ \E t, u \in Tasks : outcome[t] = "Failed" /\ outcome[u] = "Succeeded"

\* C5: a failed link does not stop its siblings: the orchestrator goes on
\* only when every task has returned, after a failure every unfinished task
\* can still advance (a waiting task has a free slot or a holder that will
\* free one), and the pairs saved and recorded stay in the Dedup Store.
C5_FailureIsolation ==
    /\ phase \in {"aggregating", "exited"} => AllDone
    /\ (phase = "processing" /\ \E t \in Tasks : outcome[t] = "Failed") =>
          /\ ~AllDone => ENABLED (\E t \in Tasks : TaskStep(t))
          /\ \A u \in Tasks : pc[u] = "wait" => semaphore > 0 \/ holders # {}
    /\ (Running /\ \E t \in Tasks : outcome[t] = "Failed") =>
          \A r \in completed : Persisted(r) /\ InMemory(r)

\* C5 witness: the first link failed, and a sibling started after it was
\* summarized, saved and recorded.
C5_Witness ==
    /\ phase = "aggregating"
    /\ \E t, u \in Tasks : /\ t < u
                           /\ outcome[t] = "Failed"
                           /\ outcome[u] = "Succeeded"
                           /\ links[u] \in completed
                           /\ links[t] \notin completed
                           /\ Persisted(links[u])

\* C6: a link whose fetch or model call fails ends Failed with the Dedup
\* Store (memory and file) and the summary files unchanged, having written
\* nothing, and the progress counter advanced by one.
C6_FailureWritesNothing ==
    [][\A t \in Tasks :
          (phase = "processing" /\ outcome[t] # "Failed" /\ outcome'[t] = "Failed")
          => /\ pc[t] \in {"created", "wait", "fetching", "invoking"}
             /\ sumWrites[t] = 0 /\ storeWrites[t] = 0
             /\ UNCHANGED <<storeFile, sumFiles, processed_links, summarized_links>>
             /\ progress' = progress + 1]_vars

\* C6 witness: a link failed after its page was fetched and its model call
\* was made, and it is not in the Dedup Store.
C6_Witness ==
    \E t \in Tasks : /\ outcome[t] = "Failed"
                     /\ invokes[links[t]] = 1
                     /\ ~Persisted(links[t]) /\ ~InMemory(links[t])

\* C7: a processed-links file that is not valid JSON is loaded as an empty
\* store and the Summarizer is constructed.
C7_CorruptLoadsEmpty ==
    (storeFile.state = "corrupt" /\ phase # "boot") =>
        phase # "crashed" /\ processed_links = EmptyMap

\* C8: every write of the Dedup Store by the Link Processor keeps every
\* entry that is in the backing file, also an entry that another writer put
\* there after this Summarizer loaded the store and that its in-memory copy
\* does not hold.
C8_WriteMergesFile ==
    [][(phase = "processing" /\ processed_links' # processed_links) =>
          StoreEntries(storeFile) \subseteq StoreEntries(storeFile')]_vars

\* The task has called save_processed_link in this run.
HasRecorded(t) ==
    \/ storeWrites[t] > 0
    \/ pc[t] = "done" /\ outcome[t] = "Succeeded" /\ links[t] \in completed

\* C9: when two link tasks of one run have recorded different urls under
\* the same industry, both entries are in the persisted Dedup Store.
C9_NoLostUpdate ==
    \A t, u \in Tasks :
        (t # u /\ Industry(t) = Industry(u) /\ Url(t) # Url(u)
            /\ HasRecorded(t) /\ HasRecorded(u))
        => Persisted(links[t]) /\ Persisted(links[u])

\* C9 witness: two tasks are in flight at once, each has recorded its url
\* under the same industry, and both are back in save_summary.
C9_Witness ==
    \E t, u \in Tasks : /\ t # u /\ Industry(t) = Industry(u) /\ Url(t) # Url(u)
                        /\ InFlight(t) /\ InFlight(u)
                        /\ storeWrites[t] = 1 /\ storeWrites[u] = 1
                        /\ run = 1

\* C10: a task that has returned holds no slot: the counter plus the tasks
\* in flight is always the width, and when every task has returned all
\* slots are free.
C10_SlotReleased ==
    Running =>
        /\ \A t \in Tasks : pc[t] = "done" => t \notin holders
        /\ semaphore + Cardinality({t \in Tasks : InFlight(t)}) = width
        /\ AllDone => semaphore = width /\ holders = {}

\* C10 witness: a batch is done in which one task left by the exception
\* path (it failed without a fetch) and another after a summary.
C10_Witness ==
    /\ phase = "aggregating"
    /\ semaphore = width
    /\ \E t, u \in Tasks : /\ outcome[t] = "Failed" /\ fetches[links[t]] = 0
                           /\ outcome[u] = "Succeeded" /\ links[u] \in completed

\* C11: once the tasks of a batch are created, every one of them returns,
\* whatever failed: the run reaches aggregation with every task done and
\* the progress counter at the number of discovered links.
C11_BatchTerminates ==
    (phase = "processing")
        ~> (phase = "aggregating" /\ AllDone /\ progress = total_links
               /\ progress = Len(links))

\* C11 witness: with one slot, a batch of two links went through, the
\* second link summarized after the first one failed.
C11_Witness ==
    /\ phase = "aggregating"
    /\ width = 1
    /\ Len(links) = 2
    /\ outcome[1] = "Failed"
    /\ outcome[2] = "Succeeded"
    /\ progress = 2

\* The (industry, url) pairs of a set of store entries.
Pairs(entries) == {<<e[1], e[2]>> : e \in entries}

\* C12: no step of the Link Processor removes a pair from the Dedup Store:
\* the pairs of the persisted file only grow, over every run, and so do the
\* pairs of a Summarizer's in-memory dict for as long as the object lives.
C12_AppendOnly ==
    [][/\ Pairs(StoreEntries(storeFile)) \subseteq Pairs(StoreEntries(storeFile'))
       /\ (phase' # "boot") =>
             Pairs(json_dump(processed_links).members)
                \subseteq Pairs(json_dump(processed_links').members)]_vars

\* C12 witness: in a later run a pair was recorded beside a pair that an
\* earlier run had recorded, and both are in the file and in memory.
C12_Witness ==
    /\ run > 1
    /\ \E r, q \in LinkRecords :
          /\ r # q
          /\ fetches[r] = 0 /\ fetches[q] > 0
          /\ Persisted(r) /\ Persisted(q)
          /\ InMemory(r) /\ InMemory(q)

\* C13: deduplication is per industry.  A step that records a url under
\* one industry leaves the dict of every other industry as it was, and a
\* process_url call for a url that is recorded under another industry only
\* is not skipped: the task waits for a slot, or enters the block and
\* goes to fetch the page (or leaves it by the exception path).
C13_PerIndustry ==
    [][(phase = "processing" /\ phase' = "processing") =>
          /\ \A j \in Industries :
                DictGet(processed_links', j) # DictGet(processed_links, j)
                => \E t \in Tasks : /\ pc[t] = "closing" /\ pc'[t] # "closing"
                                     /\ Industry(t) = j
          /\ \A t \in Tasks :
                (/\ pc[t] = "created" /\ pc'[t] # "created"
                 /\ Url(t) \notin DOMAIN DictGet(processed_links, Industry(t))
                 /\ \E i \in Industries \ {Industry(t)} :
                       Url(t) \in DOMAIN DictGet(processed_links, i))
                => /\ outcome'[t] # "Deduped"
                   /\ \/ pc'[t] = "wait"
                      \/ pc'[t] = "fetching" /\ t \in holders'
                      \/ outcome'[t] = "Failed"]_vars

\* C13 witness: a url recorded under industry A by an earlier run was
\* fetched, summarized and recorded under industry B in this run.
C13_Witness ==
    /\ run > 1
    /\ fetches[<<"A", U1>>] = 0 /\ InMemory(<<"A", U1>>)
    /\ fetches[<<"B", U1>>] = 1 /\ invokes[<<"B", U1>>] = 1
    /\ InMemory(<<"B", U1>>) /\ Persisted(<<"B", U1>>)
    /\ \E t \in Tasks : links[t] = <<"B", U1>> /\ outcome[t] = "Succeeded"

\* C14: the steps of one link come in order.  A task goes to fetch its
\* page only on taking a free slot, a page is fetched only by a slot
\* holder, the model is called only by a slot holder whose page was
\* fetched, a summary file is written only by a slot holder whose
\* model call was made, the Dedup Store (memory and file) is updated only
\* by a slot holder that has written and closed its summary file, and a
\* slot holder gives its slot back only on returning, which for a saved
\* summary is the return from the last save_summary.  So every Dedup Store entry names a summary file that
\* exists.
C14_StepOrder ==
    [][/\ (phase = "processing" /\ phase' = "processing") =>
             /\ \A r \in LinkRecords :
                   /\ fetches'[r] > fetches[r] =>
                         \E t \in holders : /\ links[t] = r
                                             /\ pc[t] = "fetching"
                                             /\ pc'[t] # pc[t]
                   /\ invokes'[r] > invokes[r] =>
                         \E t \in holders : /\ links[t] = r
                                             /\ pc[t] = "invoking"
                                             /\ pc'[t] # pc[t]
                                             /\ fetches[r] >= 1
                   /\ invokes'[r] <= fetches'[r]
             /\ \A t \in Tasks :
                   (pc'[t] = "fetching" /\ pc[t] # "fetching") =>
                       /\ semaphore > 0
                       /\ t \notin holders /\ t \in holders'
             /\ sumFiles' # sumFiles =>
                   \E t \in holders :
                       /\ pc[t] \in {"opening", "writing"} /\ pc'[t] # pc[t]
                       /\ invokes[links[t]] >= 1
                       /\ sumFiles' = MapPut(sumFiles, summary_path(Url(t), Industry(t)),
                                             sumFiles'[summary_path(Url(t), Industry(t))])
             /\ (processed_links' # processed_links \/ storeFile' # storeFile) =>
                   \E t \in holders :
                       /\ pc[t] = "closing" /\ pc'[t] # "closing"
                       /\ sumWrites[t] >= 1
                       /\ summary_path(Url(t), Industry(t)) \in DOMAIN sumFiles
                       /\ t \in holders' \/ site[t] = 2
             /\ \A t \in holders :
                   t \notin holders' =>
                       /\ pc'[t] = "done"
                       /\ (outcome'[t] = "Succeeded" /\ need_save_summary) =>
                             /\ site[t] = 2
                             /\ pc[t] \in {"opening", "closing"}
       /\ \A e \in StoreEntries(storeFile') \cup json_dump(processed_links').members :
             e[3] \in DOMAIN sumFiles']_vars

\* C14 witness: a task has written its summary file and recorded its pair,
\* the entry names the file that holds the summary, and the task still
\* holds its slot.
C14_Witness ==
    \E t \in holders :
        /\ storeWrites[t] = 1
        /\ site[t] = 2
        /\ Persisted(links[t]) /\ InMemory(links[t])
        /\ summary_path(Url(t), Industry(t)) \in DOMAIN sumFiles
        /\ sumFiles[summary_path(Url(t), Industry(t))]
              = summary_content(Url(t), SummaryText)

\* Both urls of the host were summarized, each once, by two tasks of a run
\* with one slot, and both tasks are over.
BothSummarized(t, u) ==
    /\ need_save_summary /\ width = 1
    /\ t # u
    /\ links[t] = <<"A", U1>> /\ links[u] = <<"A", U2>>
    /\ fetches[links[t]] = 1 /\ fetches[links[u]] = 1
    /\ pc[t] = "done" /\ outcome[t] = "Succeeded" /\ links[t] \in completed
    /\ pc[u] = "done" /\ outcome[u] = "Succeeded" /\ links[u] \in completed

\* C15: https://www.a.com/x and https://a.com/y are two urls of one host,
\* and under one industry they have the same summary path.  A write to
\* the summary file leaves the content of that write only, and the file
\* changes by no other step; so when a run with one slot has summarized
\* both urls, the one after the other, the file holds the content of one
\* write, the later, and nothing of the other, and the Dedup Store
\* (memory and file) maps both urls to that one path.
C15_HostCollision ==
    /\ [](/\ U1 # U2
          /\ summary_path(U1, "A") = summary_path(U2, "A")
          /\ \A t, u \in Tasks :
                BothSummarized(t, u) =>
                   /\ summary_path(U1, "A") \in DOMAIN sumFiles
                   /\ sumFiles[summary_path(U1, "A")] \in
                         {summary_content(U1, SummaryText), summary_content(U2, SummaryText)}
                   /\ \A v \in {U1, U2} :
                         /\ v \in DOMAIN DictGet(processed_links, "A")
                         /\ processed_links["A"][v] = summary_path(U1, "A")
                         /\ <<"A", v, summary_path(U1, "A")>> \in StoreEntries(storeFile))
    /\ [][/\ \A t \in Tasks :
               (t \in DOMAIN pc /\ pc[t] = "writing" /\ pc' # pc /\ pc'[t] = "closing") =>
                   sumFiles'[summary_path(Url(t), Industry(t))] =
                       summary_content(Url(t), SummaryText)
          /\ \A path \in DOMAIN sumFiles :
               /\ path \in DOMAIN sumFiles'
               /\ sumFiles'[path] # sumFiles[path] =>
                     \E t \in Tasks :
                        /\ pc[t] \in {"opening", "writing"}
                        /\ pc'[t] # pc[t]
                        /\ summary_path(Url(t), Industry(t)) = path]_vars

\* C15 witness: with one slot, the run summarized and recorded
\* https://www.a.com/x and then https://a.com/y of industry A.
C15_Witness ==
    /\ need_save_summary /\ width = 1
    /\ phase = "aggregating"
    /\ links = <<(<<"A", U1>>), (<<"A", U2>>)>>
    /\ outcome[1] = "Succeeded" /\ outcome[2] = "Succeeded"
    /\ fetches[<<"A", U1>>] = 1 /\ fetches[<<"A", U2>>] = 1
    /\ {<<"A", U1>>, <<"A", U2>>} \subseteq completed
    /\ sumFiles[summary_path(U2, "A")] = summary_content(U2, SummaryText)

\* The pairs yielded so far that come from the query's page.
YieldedFrom(q) == SelectSeq(yielded, LAMBDA p : p[2].id[1] = q)

\* C16: a query whose request raised, or was answered with another status
\* than 200, yields no link and stops nothing: the generator never ends by
\* an exception, while it runs it can always go on, and when it has ended
\* every query of every industry was run and the links of every query that
\* was answered are all yielded, under the query's industry.
C16_DiscoveryIsolation ==
    /\ dphase # "aborted"
    /\ dphase = "running" => ENABLED NextDiscovery
    /\ \A q \in AllQueries :
          IF q \in DOMAIN futures /\ futures[q].state = "taken"
          THEN /\ futures[q].cause \in {"raised", "non200"} => YieldedFrom(q) = <<>>
               /\ futures[q].cause = "ok" => YieldedFrom(q) = YieldOf(q)
          ELSE YieldedFrom(q) = <<>>
    /\ dphase = "ended" =>
          \A q \in AllQueries : q \in DOMAIN futures /\ futures[q].state = "taken"

\* C16 witness: discovery has ended; one query of the first industry
\* raised, the other gave three links, and the query of the later industry
\* gave two.
C16_Witness ==
    /\ dphase = "ended"
    /\ futures["q1"].cause = "raised"
    /\ futures["q2"].cause = "ok" /\ Len(futures["q2"].links) = 3
    /\ futures["q3"].cause = "ok" /\ Len(futures["q3"].links) = 2
    /\ Len(yielded) = 5

\* The summary the loop of generate_report is at has a judgment file that
\* is not empty.
AtJudged ==
    /\ aggPc = "judging"
    /\ aggIdx <= Len(summaries)
    /\ CurrentReport \in DOMAIN judgments
    /\ judgments[CurrentReport] # <<>>

\* C17: a summary whose judgment file exists and is not empty is not
\* passed to the judgment call (the loop moves on without a call and
\* without a write), a judgment call is made only for a summary without
\* such a file, and no judgment file that is not empty is ever changed;
\* so an aggregation that finds every summary judged makes no call.
C17_JudgedOnce ==
    [][/\ AtJudged =>
            /\ judgeCalls' = judgeCalls
            /\ judgments' = judgments
            /\ aggIdx' \in {aggIdx, aggIdx + 1}
            /\ aggPc' = "judging"
       /\ (aggPc = "judging" /\ aggPc' # "judging" /\ judgeCalls' = judgeCalls) =>
            aggIdx > Len(summaries)
       /\ \A path \in DOMAIN judgments :
            judgments[path] # <<>> =>
                path \in DOMAIN judgments' /\ judgments'[path] = judgments[path]]_vars

\* A second aggregation of two summaries, both judged by the first, has
\* ended without a judgment call.
C17_Witness ==
    /\ aggRun = 2
    /\ aggPc = "done"
    /\ Len(summaries) = 2
    /\ judgeCalls = 0
    /\ \A k \in DOMAIN summaries :
          /\ report_path(aggIndustry, summaries[k][1]) \in DOMAIN judgments
          /\ judgments[report_path(aggIndustry, summaries[k][1])] # <<>>

\* The judgment files of an industry.
JudgmentFiles(industry) == {path \in DOMAIN judgments : path[2] = industry}

\* The row a judgment file stands for: the link made of the url and the
\* reason as it is printed.
RowOf(path) ==
    LET data == process_file(judgments[path])
        reason == GetOr(data, "reason", EmptyStr)
    IN <<<<parser_extract_name_from_url(data["url"]), data["url"]>>,
         IF reason = None THEN <<"None">> ELSE reason>>

\* The judgment file yields a url.
YieldsUrl(path) ==
    LET data == process_file(judgments[path])
    IN "url" \in DOMAIN data /\ data["url"] # None

\* The judgment file's reliable field is 'Yes'.
ReliableYes(path) ==
    LET data == process_file(judgments[path])
    IN "reliable" \in DOMAIN data /\ data["reliable"] = <<"Yes">>

\* How many rows of a table are the row.
Occurrences(rows, row) == Cardinality({k \in DOMAIN rows : rows[k] = row})

\* The report is the one the judgment files of the industry call for.
ReportMatchesJudgments(industry, report) ==
    LET files == {path \in JudgmentFiles(industry) : YieldsUrl(path)}
        rowsOf == {RowOf(path) : path \in files}
    IN /\ report.selectedCount = Len(report.selectedRows)
       /\ report.rejectedCount = Len(report.rejectedRows)
       /\ Len(report.selectedRows) + Len(report.rejectedRows) = Cardinality(files)
       /\ \A k \in DOMAIN report.selectedRows : report.selectedRows[k] \in rowsOf
       /\ \A k \in DOMAIN report.rejectedRows : report.rejectedRows[k] \in rowsOf
       /\ \A row \in rowsOf :
            /\ Occurrences(report.selectedRows, row) =
                  Cardinality({path \in files : RowOf(path) = row /\ ReliableYes(path)})
            /\ Occurrences(report.rejectedRows, row) =
                  Cardinality({path \in files : RowOf(path) = row /\ ~ReliableYes(path)})

\* C18: a final report, when it is written, has one row for every
\* judgment file of the industry that yields a url, with its reason, in
\* the selected table if and only if the file's reliable field is 'Yes'
\* and in the rejected table otherwise; files that yield no url have no
\* row; the counts of the headings are the numbers of rows.
C18_ReportPartition ==
    [][\A key \in DOMAIN finalReports' :
          (key \notin DOMAIN finalReports \/ finalReports'[key] # finalReports[key]) =>
              ReportMatchesJudgments(key[2], finalReports'[key])]_vars

\* The first aggregation of A judged two summaries, one reliable and one
\* without a url, and the report of this second has the one row, in the
\* selected table.
C18_Witness ==
    /\ aggRun = 1
    /\ aggPc = "done"
    /\ aggIndustry = "A"
    /\ judgeCalls = 2
    /\ {judgments[path] : path \in JudgmentFiles("A")} = {JudgedYes, JudgedNoUrl}
    /\ output_file("A", clock) \in DOMAIN finalReports
    /\ finalReports[output_file("A", clock)].selectedRows =
          <<<<<<<<"a", "com">>, JU1>>, <<"R1">>>>>>
    /\ finalReports[output_file("A", clock)].selectedCount = 1
    /\ finalReports[output_file("A", clock)].rejectedRows = <<>>
    /\ finalReports[output_file("A", clock)].rejectedCount = 0

\* C19: final reports are never overwritten: every final report stays as
\* it was written, and an aggregation run that reaches process_reports
\* adds a final report of its industry that was not there before.
C19_NeverOverwritten ==
    [][/\ \A key \in DOMAIN finalReports :
            key \in DOMAIN finalReports' /\ finalReports'[key] = finalReports[key]
       /\ (aggPc = "judging" /\ aggPc' = "done") =>
            \E key \in DOMAIN finalReports' \ DOMAIN finalReports :
                key[2] = aggIndustry]_vars

\* C20: when the summary directory of an industry does not exist, an
\* aggregation of the industry makes no judgment call and writes no
\* final report.
C20_MissingDirectorySkipped ==
    [][(aggPc = "judging" /\ aggIndustry \notin sumDirs) =>
          /\ judgeCalls' = judgeCalls
          /\ finalReports' = finalReports]_vars

\* The positions of the page's result blocks whose href starts with
\* 'http', and the rank of such a position among them.
HttpPositions(results) ==
    {k \in DOMAIN results : results[k] # NoAnchor /\ startswith_http(results[k].a)}
HttpRank(results, k) == Cardinality({i \in HttpPositions(results) : i <= k})

\* The links are the hrefs at ranks start+1 .. stop (positions
\* [start, stop) counted from 0) of the page's http links, in page order.
IsWindowOf(found, results) ==
    LET window == {k \in HttpPositions(results) :
                      Start < HttpRank(results, k) /\ HttpRank(results, k) <= Stop}
    IN /\ Len(found) = Cardinality(window)
       /\ Len(found) <= Stop - Start
       /\ \A k \in window : found[HttpRank(results, k) - Start] = results[k].a
       /\ \A j \in DOMAIN found : startswith_http(found[j])
       /\ Cardinality(HttpPositions(results)) <= Start => found = <<>>

\* C23: whenever get_search_results returns for a query, what it returns
\* has at most stop - start links, each starting with 'http', and they are
\* the elements at positions [start, stop) of the page's http-filtered
\* result links in page order; a page with no more than start such links
\* gives the empty list.
C23_ResultWindow ==
    [][\A q \in AllQueries : \A response \in Responses(q) :
          (/\ q \in DOMAIN futures /\ futures[q].state = "pending"
           /\ futures'[q].state = "done" /\ futures'[q].cause # "raised"
           /\ futures'[q] = get_search_results(response))
          => IsWindowOf(futures'[q].links, response.results)]_vars

\* One query was answered with a page of seven blocks, one of them not an
\* http link, and gave the last three; another was answered with a page of
\* three links and gave none.
C23_Witness ==
    /\ {"q1", "q2"} \subseteq DOMAIN futures
    /\ futures["q1"].cause = "ok"
    /\ futures["q1"].links = <<MixedPage("q1")[5].a, MixedPage("q1")[6].a, MixedPage("q1")[7].a>>
    /\ futures["q2"].cause = "ok"
    /\ futures["q2"].links = <<>>

\* C24: within one process_url call the summary file is opened for
\* writing once and the pair is recorded (memory and store file) once: the
\* call opens the file only when it has neither written it nor recorded
\* the pair before, and it records the pair only when it has not recorded
\* it before.
C24_SingleWrite ==
    [][\A t \in Tasks :
          /\ (pc[t] = "opening" /\ pc' # pc /\ pc'[t] = "writing") =>
                (sumWrites[t] = 0 /\ storeWrites[t] = 0)
          /\ (pc[t] = "closing" /\ pc' # pc /\ pc'[t] # "closing") =>
                storeWrites[t] = 0]_vars

\* The task could take a step if the event loop ran it: it is to be
\* started, or it waits for a slot and one is free, or the file operation
\* it suspended in is over.
HasWork(u) ==
    \/ NextToStart(u)
    \/ pc[u] = "wait" /\ sem_can_acquire(semaphore)
    \/ pc[u] \in {"opening", "writing", "closing"}

\* C22: the page fetch and the model invocation are suspension points:
\* while a link task is in its page fetch or in its model invocation,
\* every other link task that has work to do can take a step.
C22_CallsYield ==
    phase = "processing" =>
        \A t, u \in Tasks :
            (t # u /\ InBlockingCall(t) /\ HasWork(u)) => ENABLED TaskStep(u)

\* Report aggregation has started: load_summaries was called.
AggregationStarted == aggPc # "idle"

\* C21: a run goes through its phases in order.  When link tasks exist,
\* discovery is over: there is one task per discovered link and the list
\* of links does not change any more.  Report aggregation starts, and
\* every judgment call, judgment file write and final report write
\* happens, only when every link task of the batch has returned.
C21_PhasesInOrder ==
    /\ [](/\ Tasks # {} =>
               /\ phase \in {"processing", "aggregating", "exited", "crashed"}
               /\ DOMAIN pc = DOMAIN links
               /\ total_links = Len(links)
          /\ phase \in {"boot", "constructed", "discovered"} => Tasks = {}
          /\ AggregationStarted =>
               /\ phase \in {"aggregating", "exited", "crashed"}
               /\ \A t \in Tasks : pc[t] = "done" /\ outcome[t] # "none")
    /\ [][/\ Tasks # {} => links' = links
          /\ (\/ aggPc' # aggPc
              \/ judgeCalls' # judgeCalls
              \/ judgments' # judgments
              \/ finalReports' # finalReports
              \/ repDirs' # repDirs) =>
                /\ phase = "aggregating"
                /\ \A t \in Tasks : pc[t] = "done"
                /\ UNCHANGED <<pc, outcome, links, sumFiles, storeFile, processed_links>>]_vars

\* A run of two links, one summarized and one failed, has made a judgment
\* call and written its final report, and has ended.
C21_Witness ==
    /\ phase = "exited"
    /\ Len(links) = 2
    /\ {outcome[t] : t \in Tasks} = {"Succeeded", "Failed"}
    /\ aggPc = "done"
    /\ judgeCalls = 1
    /\ output_file(aggIndustry, clock) \in DOMAIN finalReports

\* C25: process_links runs report aggregation for the industry passed as
\* its argument.
C25_AggregatesArgument ==
    AggregationStarted => aggIndustry = MainIndustry

====
